---- MODULE Spec2Model ----
(***************************************************************************)
(* Model of MarketResearchTool (src/market_research_tool.py) and of the    *)
(* bulk-import handler of the dashboard (src/app.py): the business         *)
(* registry, the per-area assignment columns of sa_data and the catchment  *)
(* lists, under add_business / remove_business / _recalculate_catchments.  *)
(*                                                                         *)
(* Floats are records [k, v]: k = "fin" with an integer value v, "inf" for *)
(* +infinity, "nan" for NaN.  Coordinates lie on an integer grid of        *)
(* degrees.  A distance is carried as the SQUARE of the Euclidean distance *)
(* (an exact integer on the grid): sqrt is strictly increasing, so every   *)
(* comparison the code makes between two distances has the same outcome.   *)
(* Where the code does arithmetic on a distance (a mean, a min-max          *)
(* normalisation) the model takes the root, in hundredths of a degree.      *)
(* Float rounding is not modelled: quotients are exact fractions.           *)
(***************************************************************************)
EXTENDS Integers, Sequences, FiniteSets, TLC

VARIABLES sa_data, businesses, assigned_business, distance_to_business, lastOp,
          query

vars == <<sa_data, businesses, assigned_business, distance_to_business, lastOp,
          query>>

\* ------------------------------------------------------------------ bounds
MaxBusinesses == 3
MaxLines == 2
\* The registry sizes under which the read operations are explored, and the
\* largest num_locations asked for.
MaxQueryBusinesses == 2
MaxLocations == 2

\* ------------------------------------------------------------------ floats
Fin(n) == [k |-> "fin", v |-> n]
Inf == [k |-> "inf", v |-> 0]
NaN == [k |-> "nan", v |-> 0]
ValueError == [k |-> "err", v |-> 0]

IsFinite(x) == x.k = "fin"

\* Python's x < y on floats: false whenever a NaN is involved.
Less(x, y) ==
    /\ x.k = "fin"
    /\ \/ y.k = "inf"
       \/ (y.k = "fin" /\ x.v < y.v)

\* Python's x <= y on floats.
LessEq(x, y) ==
    \/ (x.k = "fin" /\ y.k = "inf")
    \/ (x.k = "inf" /\ y.k = "inf")
    \/ (x.k = "fin" /\ y.k = "fin" /\ x.v <= y.v)

\* assigned_business cell: None, or the name of a business.
None == [some |-> FALSE, name |-> ""]
Some(n) == [some |-> TRUE, name |-> n]

\* ------------------------------------------------------------- area dataset
\* The frame the tool is built on, after dropna(subset=['latitude',
\* 'longitude']), in iteration order; sa_data holds it without the two columns
\* that the tool adds, which are the variables assigned_business and
\* distance_to_business.
\* Incomes are in thousands, densities and age-group counts in tens.
SaData ==
    << [SA1 |-> "s1", latitude |-> Fin(0), longitude |-> Fin(0),
        total_population |-> Fin(100), avg_income |-> Fin(55), avg_age |-> Fin(30),
        population_density |-> Fin(1), pop_25_54 |-> Fin(8),
        postcode |-> "3000", suburb |-> "x"],
       [SA1 |-> "s2", latitude |-> Fin(1), longitude |-> Fin(1),
        total_population |-> Fin(200), avg_income |-> Fin(70), avg_age |-> Fin(40),
        population_density |-> Fin(3), pop_25_54 |-> Fin(4),
        postcode |-> "3001", suburb |-> "y"],
       [SA1 |-> "s3", latitude |-> Fin(2), longitude |-> Fin(0),
        total_population |-> Fin(300), avg_income |-> Fin(50), avg_age |-> Fin(50),
        population_density |-> Fin(3), pop_25_54 |-> Fin(4),
        postcode |-> "3002", suburb |-> "z"] >>

Rows == 1..Len(sa_data)

\* sa_data.columns: a row has a field for every column of the frame.
Columns == UNION {DOMAIN sa_data[idx] : idx \in Rows}

\* ------------------------------------------------------------------ inputs
Names == {"A", "B"}
\* (lat, lon) pairs handed to add_business; (91, 0) is off the globe.  The bulk
\* import adds a NaN latitude and the empty name.
Coords == { <<Fin(0), Fin(0)>>, <<Fin(2), Fin(0)>>, <<Fin(91), Fin(0)>> }
\* "C" is never added; "" comes in through the bulk import only.
RemoveNames == Names \cup {"", "C"}

\* ------------------------------------------------- _recalculate_catchments
\* scipy.spatial.distance.euclidean(u, v): norm(u - v) through
\* scipy.linalg.norm, whose check_finite raises ValueError on inf or NaN.
euclidean(u, v) ==
    IF IsFinite(u[1]) /\ IsFinite(u[2]) /\ IsFinite(v[1]) /\ IsFinite(v[2])
    THEN [raised |-> FALSE,
          dist |-> Fin((u[1].v - v[1].v) * (u[1].v - v[1].v)
                       + (u[2].v - v[2].v) * (u[2].v - v[2].v))]
    ELSE [raised |-> TRUE, dist |-> NaN]

\* The mutated comparison: replaces the current best on a tie as well.
CloserOrEqual(dist, min_dist) == LessEq(dist, min_dist)

\* line 91: if dist < min_dist
Closer(dist, min_dist) == Less(dist, min_dist)

\* lines 87-93: the scan of the registry for one area, from business i on.
RECURSIVE ScanBusinesses(_, _, _, _, _)
ScanBusinesses(sa_coords, bs, i, min_dist, nearest_business) ==
    IF i > Len(bs)
    THEN [raised |-> FALSE, min_dist |-> min_dist,
          nearest_business |-> nearest_business]
    ELSE LET e == euclidean(sa_coords, <<bs[i].lat, bs[i].lon>>)
         IN  IF e.raised
             THEN [raised |-> TRUE, min_dist |-> min_dist,
                   nearest_business |-> nearest_business]
             ELSE IF Closer(e.dist, min_dist)
                  THEN ScanBusinesses(sa_coords, bs, i + 1, e.dist, Some(bs[i].name))
                  ELSE ScanBusinesses(sa_coords, bs, i + 1, min_dist, nearest_business)

\* lines 82-96: the loop over sa_data.iterrows() from row idx on; an exception
\* of the scan leaves the rows written so far and ends the loop.
RECURSIVE AssignRows(_, _, _, _)
AssignRows(bs, idx, ab, db) ==
    IF idx > Len(sa_data)
    THEN [raised |-> FALSE, assigned_business |-> ab, distance_to_business |-> db]
    ELSE LET row == sa_data[idx]
             r == ScanBusinesses(<<row.latitude, row.longitude>>, bs, 1, Inf, None)
         IN  IF r.raised
             THEN [raised |-> TRUE, assigned_business |-> ab,
                   distance_to_business |-> db]
             ELSE AssignRows(bs, idx + 1,
                             [ab EXCEPT ![idx] = r.nearest_business],
                             [db EXCEPT ![idx] = r.min_dist])

\* lines 100-102: sa_data[sa_data['assigned_business'] == name]['SA1'].tolist(),
\* rows idx.. of it.
RECURSIVE MatchingSA1(_, _, _)
MatchingSA1(name, ab, idx) ==
    IF idx > Len(sa_data) THEN <<>>
    ELSE IF ab[idx] = Some(name)
         THEN <<sa_data[idx].SA1>> \o MatchingSA1(name, ab, idx + 1)
         ELSE MatchingSA1(name, ab, idx + 1)

\* The mutated rebuild: extends each catchment list instead of replacing it.
ExtendCatchments(bs, ab) ==
    [i \in 1..Len(bs) |->
        [bs[i] EXCEPT !.catchment = bs[i].catchment \o MatchingSA1(bs[i].name, ab, 1)]]

\* lines 98-102: every business's catchment list is replaced.
UpdateCatchments(bs, ab) ==
    [i \in 1..Len(bs) |->
        [bs[i] EXCEPT !.catchment = MatchingSA1(bs[i].name, ab, 1)]]

\* lines 71-72 and 78-79: both columns are reset in every row.
ResetAssigned == [idx \in Rows |-> None]
ResetDistance == [idx \in Rows |-> Inf]

\* lines 68-102 on the registry bs: the tool's state after the call and whether
\* the call raised.
RecalculateCatchments(bs) ==
    IF bs = <<>>
    THEN [raised |-> FALSE, businesses |-> bs,
          assigned_business |-> ResetAssigned,
          distance_to_business |-> ResetDistance]
    ELSE LET r == AssignRows(bs, 1, ResetAssigned, ResetDistance)
         IN  IF r.raised
             THEN [raised |-> TRUE, businesses |-> bs,
                   assigned_business |-> r.assigned_business,
                   distance_to_business |-> r.distance_to_business]
             ELSE [raised |-> FALSE,
                   businesses |-> UpdateCatchments(bs, r.assigned_business),
                   assigned_business |-> r.assigned_business,
                   distance_to_business |-> r.distance_to_business]

\* ------------------------------------------------------------ add / remove
\* lines 53-58
NewBusiness(name, lat, lon) ==
    [name |-> name, lat |-> lat, lon |-> lon, catchment |-> <<>>]

\* The mutated add: the business is appended and nothing is recomputed.
AddWithoutRecalculation(bs, name, lat, lon) ==
    [raised |-> FALSE, businesses |-> Append(bs, NewBusiness(name, lat, lon)),
     assigned_business |-> assigned_business,
     distance_to_business |-> distance_to_business]

\* lines 51-61 on the registry bs.
AddBusiness(bs, name, lat, lon) ==
    RecalculateCatchments(Append(bs, NewBusiness(name, lat, lon)))

\* The mutated filter: drops the first business of that name only.
RECURSIVE DropFirst(_, _)
DropFirst(bs, name) ==
    IF bs = <<>> THEN <<>>
    ELSE IF Head(bs).name = name THEN Tail(bs)
         ELSE <<Head(bs)>> \o DropFirst(Tail(bs), name)

\* line 65: [b for b in self.businesses if b['name'] != name]
WithoutName(bs, name) == SelectSeq(bs, LAMBDA b : b.name # name)

\* The mutated removal: the registry is filtered and nothing is recomputed.
RemoveWithoutRecalculation(bs, name) ==
    [raised |-> FALSE, businesses |-> WithoutName(bs, name),
     assigned_business |-> assigned_business,
     distance_to_business |-> distance_to_business]

\* lines 63-66 on the registry bs.
RemoveBusiness(bs, name) == RecalculateCatchments(WithoutName(bs, name))

\* --------------------------------------------------------------- bulk import
\* Python's float(token) on the tokens of the pasted lines.
float(token) ==
    CASE token = "0" -> Fin(0)
      [] token = "1" -> Fin(1)
      [] token = "2" -> Fin(2)
      [] token = "91" -> Fin(91)
      [] token = "nan" -> NaN
      [] OTHER -> ValueError

\* A pasted line, as line.split(',') with every part stripped.
BulkLines ==
    { <<"A", "0", "0">>, <<"B", "2", "1">>, <<"", "2", "0">>,
      <<"A", "nan", "0">>, <<"B", "x", "0">>, <<"A", "0">>,
      <<"B", "2", "1", "0">> }

BulkInputs == UNION { [1..n -> BulkLines] : n \in 1..MaxLines }

\* The mutated loop: the first malformed line ends the import.
RECURSIVE ImportUntilMalformed(_, _, _)
ImportUntilMalformed(lines, i, st) ==
    IF i > Len(lines) THEN st
    ELSE LET parts == lines[i]
             lat == float(parts[2])
             lon == float(parts[3])
             r == AddBusiness(st.businesses, parts[1], lat, lon)
             t == [businesses |-> r.businesses,
                   assigned_business |-> r.assigned_business,
                   distance_to_business |-> r.distance_to_business,
                   success_count |-> st.success_count,
                   error_count |-> st.error_count]
         IN  IF Len(parts) # 3 \/ lat = ValueError \/ lon = ValueError
             THEN [st EXCEPT !.error_count = @ + 1]
             ELSE ImportUntilMalformed(lines, i + 1,
                      IF r.raised THEN [t EXCEPT !.error_count = @ + 1]
                      ELSE [t EXCEPT !.success_count = @ + 1])

\* app.py lines 697-707: the loop over the lines from line i on; st carries the
\* registry, both columns and the two counters.
RECURSIVE ImportLines(_, _, _)
ImportLines(lines, i, st) ==
    IF i > Len(lines) THEN st
    ELSE LET parts == lines[i]
             failed == [st EXCEPT !.error_count = @ + 1]
         IN  IF Len(parts) = 3
             THEN LET lat == float(parts[2])
                      lon == float(parts[3])
                  IN  IF lat = ValueError \/ lon = ValueError
                      THEN ImportLines(lines, i + 1, failed)
                      ELSE LET r == AddBusiness(st.businesses, parts[1], lat, lon)
                               t == [businesses |-> r.businesses,
                                     assigned_business |-> r.assigned_business,
                                     distance_to_business |-> r.distance_to_business,
                                     success_count |-> st.success_count,
                                     error_count |-> st.error_count]
                           IN  IF r.raised
                               THEN ImportLines(lines, i + 1,
                                        [t EXCEPT !.error_count = @ + 1])
                               ELSE ImportLines(lines, i + 1,
                                        [t EXCEPT !.success_count = @ + 1])
             ELSE ImportLines(lines, i + 1, failed)

\* ---------------------------------------------------- get_catchment_summary
\* The largest r in lo..hi with r * r <= n.
RECURSIVE isqrt(_, _, _)
isqrt(n, lo, hi) ==
    IF lo >= hi THEN lo
    ELSE LET mid == (lo + hi + 1) \div 2
         IN  IF mid * mid <= n THEN isqrt(n, mid, hi) ELSE isqrt(n, lo, mid - 1)

\* The distance itself, in hundredths of a degree, from the squared distance
\* that the columns carry.
Root(d) == IF d.k = "fin" THEN Fin(isqrt(d.v * 10000, 0, 46340)) ELSE d

\* A quotient of two integers, and the NaN and +inf a pandas mean can be.
Frac(n, d) == [k |-> "fin", num |-> n, den |-> d]
FracNaN == [k |-> "nan", num |-> 0, den |-> 1]
FracInf == [k |-> "inf", num |-> 0, den |-> 1]

AllRows == [idx \in Rows |-> idx]

\* line 115: if business_name (None and the empty string are falsy).
Truthy(business_name) == business_name.some /\ business_name.name # ""

\* lines 115-118: the rows of catchment_data.
CatchmentData(business_name) ==
    IF Truthy(business_name)
    THEN SelectSeq(AllRows, LAMBDA idx : assigned_business[idx] = business_name)
    ELSE AllRows

\* The mutated bound: an area exactly at the bound is dropped.
IncomeAbove(income, min_income) == Less(min_income, income)

\* line 127: catchment_data['avg_income'] >= demographic_filters['min_income']
IncomeAtLeast(income, min_income) == LessEq(min_income, income)

\* line 131: catchment_data['avg_income'] <= demographic_filters['max_income']
IncomeAtMost(income, max_income) == LessEq(income, max_income)

\* demographic_filters: None, or a dict that may hold min_income and max_income.
NoFilters ==
    [has_min |-> FALSE, min_income |-> Fin(0), has_max |-> FALSE, max_income |-> Fin(0)]
MinMax(lo, hi) ==
    [has_min |-> TRUE, min_income |-> Fin(lo), has_max |-> TRUE, max_income |-> Fin(hi)]
MaxOnly(hi) ==
    [has_min |-> FALSE, min_income |-> Fin(0), has_max |-> TRUE, max_income |-> Fin(hi)]
MinOnly(lo) ==
    [has_min |-> TRUE, min_income |-> Fin(lo), has_max |-> FALSE, max_income |-> Fin(0)]

\* lines 121-132
ApplyFilters(rows, f) ==
    LET a == IF f.has_min
             THEN SelectSeq(rows, LAMBDA idx :
                      IncomeAtLeast(sa_data[idx].avg_income, f.min_income))
             ELSE rows
    IN  IF f.has_max
        THEN SelectSeq(a, LAMBDA idx :
                 IncomeAtMost(sa_data[idx].avg_income, f.max_income))
        ELSE a

\* Series.sum(): NaN is skipped, the empty sum is 0.
RECURSIVE SeriesSum(_)
SeriesSum(xs) ==
    IF xs = <<>> THEN Fin(0)
    ELSE LET rest == SeriesSum(Tail(xs))
             x == Head(xs)
         IN  IF x.k = "nan" THEN rest
             ELSE IF x.k = "inf" \/ rest.k = "inf" THEN Inf
                  ELSE Fin(x.v + rest.v)

\* The mutated mean: 0 over no rows.
SeriesMeanOrZero(xs) ==
    LET ys == SelectSeq(xs, LAMBDA x : x.k # "nan")
        t == SeriesSum(ys)
    IN  IF ys = <<>> THEN Frac(0, 1)
        ELSE IF t.k = "inf" THEN FracInf ELSE Frac(t.v, Len(ys))

\* Series.mean(): NaN is skipped, and the mean of nothing is NaN.
SeriesMean(xs) ==
    LET ys == SelectSeq(xs, LAMBDA x : x.k # "nan")
        t == SeriesSum(ys)
    IN  IF ys = <<>> THEN FracNaN
        ELSE IF t.k = "inf" THEN FracInf ELSE Frac(t.v, Len(ys))

\* Series.max(): NaN is skipped, and the max of nothing is NaN.
RECURSIVE SeriesMax(_)
SeriesMax(xs) ==
    IF xs = <<>> THEN NaN
    ELSE LET rest == SeriesMax(Tail(xs))
             x == Head(xs)
         IN  IF x.k = "nan" THEN rest
             ELSE IF rest.k = "nan" THEN x
                  ELSE IF Less(x, rest) THEN rest ELSE x

\* Series.min(): NaN is skipped, and the min of nothing is NaN.
RECURSIVE SeriesMin(_)
SeriesMin(xs) ==
    IF xs = <<>> THEN NaN
    ELSE LET rest == SeriesMin(Tail(xs))
             x == Head(xs)
         IN  IF x.k = "nan" THEN rest
             ELSE IF rest.k = "nan" THEN x
                  ELSE IF Less(rest, x) THEN rest ELSE x

\* The column of the rows: an attribute of sa_data, or the distance column.
Column(rows, name) ==
    [i \in 1..Len(rows) |->
        CASE name = "total_population" -> sa_data[rows[i]].total_population
          [] name = "avg_income" -> sa_data[rows[i]].avg_income
          [] name = "avg_age" -> sa_data[rows[i]].avg_age
          [] name = "population_density" -> sa_data[rows[i]].population_density
          [] name = "pop_25_54" -> sa_data[rows[i]].pop_25_54
          [] name = "distance_to_business" -> Root(distance_to_business[rows[i]])]

\* lines 134-141
Summary(catchment_data) ==
    [total_population |-> SeriesSum(Column(catchment_data, "total_population")),
     num_areas |-> Len(catchment_data),
     avg_income |-> SeriesMean(Column(catchment_data, "avg_income")),
     avg_age |-> SeriesMean(Column(catchment_data, "avg_age")),
     avg_distance |-> SeriesMean(Column(catchment_data, "distance_to_business")),
     max_distance |-> SeriesMax(Column(catchment_data, "distance_to_business"))]

\* ---------------------------------------------------- find_optimal_location
\* lines 166-170: scipy.spatial.distance.cdist of one row and one business; it
\* checks nothing, a NaN coordinate gives a NaN distance.
cdist(idx, b) ==
    LET row == sa_data[idx]
    IN  IF IsFinite(b.lat) /\ IsFinite(b.lon)
        THEN Fin((row.latitude.v - b.lat.v) * (row.latitude.v - b.lat.v)
                 + (row.longitude.v - b.lon.v) * (row.longitude.v - b.lon.v))
        ELSE NaN

\* The mutated test: keeps the rows within the radius.
WithinRadius(dist, min_distance) == LessEq(dist, min_distance)

\* line 171: distances >= min_distance_from_existing
FarEnough(dist, min_distance) == LessEq(min_distance, dist)

\* lines 165-171: the loop over the registry from business i on.
RECURSIVE FilterCandidates(_, _, _)
FilterCandidates(candidates, i, min_distance) ==
    IF i > Len(businesses) THEN candidates
    ELSE FilterCandidates(
             SelectSeq(candidates, LAMBDA idx :
                 FarEnough(cdist(idx, businesses[i]), min_distance)),
             i + 1, min_distance)

\* lines 161-171
Candidates(min_distance) ==
    IF businesses # <<>> /\ Less(Fin(0), min_distance)
    THEN FilterCandidates(AllRows, 1, min_distance)
    ELSE AllRows

\* (x - min) / (max - min) of floats: inf - inf and 0 / 0 are NaN.
MinMaxQuotient(x, lo, hi) ==
    IF x.k = "nan" \/ lo.k = "nan" \/ hi.k = "nan" THEN FracNaN
    ELSE IF lo.k = "inf" \/ x.k = "inf" THEN FracNaN
         ELSE IF hi.k = "inf" THEN Frac(0, 1)
              ELSE IF hi.v = lo.v THEN FracNaN
                   ELSE Frac(x.v - lo.v, hi.v - lo.v)

\* lines 185-188, 196-197, 202-205: a column min-max normalised over the
\* candidates.
Normalized(xs) ==
    [i \in 1..Len(xs) |-> MinMaxQuotient(xs[i], SeriesMin(xs), SeriesMax(xs))]

\* score += normalized * weight. Weights and scores are carried in tenths: the
\* weight 0.4 is 4 and the score 0.6 is 6.
AddWeighted(score, normalized, weight) ==
    IF score.k = "nan" \/ normalized.k = "nan" THEN FracNaN
    ELSE Frac(score.num * normalized.den + weight * normalized.num * score.den,
              score.den * normalized.den)

\* line 192-195: a target is asked for and its column exists.
TargetActive(target_demographics) ==
    target_demographics.some /\ target_demographics.name \in Columns

\* The mutated weights: rescaled to sum to 1 over the signals in use (to the
\* nearest tenth).
RenormalizedWeights(target_demographics) ==
    LET t == TargetActive(target_demographics)
        b == businesses # <<>>
    IN  CASE t /\ b -> [density |-> 4, target |-> 4, distance |-> 2]
          [] t /\ ~b -> [density |-> 5, target |-> 5, distance |-> 0]
          [] ~t /\ b -> [density |-> 7, target |-> 0, distance |-> 3]
          [] OTHER -> [density |-> 10, target |-> 0, distance |-> 0]

\* lines 189, 198, 206: the weights in tenths, 0 for a signal that is left out.
Weights(target_demographics) ==
    [density |-> IF "population_density" \in Columns THEN 4 ELSE 0,
     target |-> IF TargetActive(target_demographics) THEN 4 ELSE 0,
     distance |-> IF businesses # <<>> THEN 2 ELSE 0]

\* lines 181-206: the three normalised columns of the candidates and the score
\* column; a signal that is left out has no column.
Scoring(candidates, target_demographics) ==
    LET w == Weights(target_demographics)
        density == IF "population_density" \in Columns
                   THEN Normalized(Column(candidates, "population_density"))
                   ELSE <<>>
        target == IF TargetActive(target_demographics)
                  THEN Normalized(Column(candidates, target_demographics.name))
                  ELSE <<>>
        distance == IF businesses # <<>>
                    THEN Normalized(Column(candidates, "distance_to_business"))
                    ELSE <<>>
        s0 == [i \in 1..Len(candidates) |-> Frac(0, 1)]
        s1 == IF density = <<>> THEN s0
              ELSE [i \in 1..Len(candidates) |->
                       AddWeighted(s0[i], density[i], w.density)]
        s2 == IF target = <<>> THEN s1
              ELSE [i \in 1..Len(candidates) |->
                       AddWeighted(s1[i], target[i], w.target)]
        s3 == IF distance = <<>> THEN s2
              ELSE [i \in 1..Len(candidates) |->
                       AddWeighted(s2[i], distance[i], w.distance)]
    IN  [density |-> density, target |-> target, distance |-> distance,
         score |-> s3]

\* a > b on two scores; scores of one call share their denominator.
ScoreGreater(a, b) ==
    /\ a.k = "fin" /\ b.k = "fin"
    /\ IF a.den = b.den THEN a.num > b.num
       ELSE a.num * b.den > b.num * a.den

\* The mutated choice: the last of the largest scores.
LastOfLargest(xs) ==
    IF \A i \in 1..Len(xs) : xs[i].score.k = "nan" THEN 1
    ELSE CHOOSE i \in 1..Len(xs) :
             /\ xs[i].score.k # "nan"
             /\ \A j \in 1..Len(xs) : ~ScoreGreater(xs[j].score, xs[i].score)
             /\ \A j \in (i + 1)..Len(xs) :
                    xs[j].score.k = "nan" \/ ScoreGreater(xs[i].score, xs[j].score)

\* The place in xs of the row nlargest takes first (keep='first'): the first of
\* the largest scores, or the first row when every score is NaN.
FirstOfLargest(xs) ==
    IF \A i \in 1..Len(xs) : xs[i].score.k = "nan" THEN 1
    ELSE CHOOSE i \in 1..Len(xs) :
             /\ xs[i].score.k # "nan"
             /\ \A j \in 1..Len(xs) : ~ScoreGreater(xs[j].score, xs[i].score)
             /\ \A j \in 1..(i - 1) :
                    xs[j].score.k = "nan" \/ ScoreGreater(xs[i].score, xs[j].score)

\* line 209: DataFrame.nlargest(n, 'score'): descending, ties in the order of
\* the frame, NaN scores last.
RECURSIVE nlargest(_, _)
nlargest(xs, n) ==
    IF n <= 0 \/ xs = <<>> THEN <<>>
    ELSE LET p == FirstOfLargest(xs)
             rest == [i \in 1..(Len(xs) - 1) |-> IF i < p THEN xs[i] ELSE xs[i + 1]]
         IN  <<xs[p]>> \o nlargest(rest, n - 1)

\* The mutated early return: an error instead of the empty list.
NoCandidatesError == [raised |-> TRUE, results |-> <<>>]

\* lines 173-174
NoCandidates == [raised |-> FALSE, results |-> <<>>]

\* lines 213-221: the columns that row[...] reads; a column that sa_data does
\* not have is a KeyError.
ResultColumns ==
    {"SA1", "latitude", "longitude", "postcode", "suburb", "total_population",
     "population_density"}

KeyError == [raised |-> TRUE, results |-> <<>>]

\* lines 211-222
ResultRow(x) ==
    LET row == sa_data[x.idx]
    IN  [SA1 |-> row.SA1, latitude |-> row.latitude, longitude |-> row.longitude,
         postcode |-> row.postcode, suburb |-> row.suburb, score |-> x.score,
         population |-> row.total_population,
         population_density |-> row.population_density]

\* lines 145-224
FindOptimalLocation(num_locations, target_demographics, min_distance) ==
    LET candidates == Candidates(min_distance)
        scoring == Scoring(candidates, target_demographics)
        scored == [i \in 1..Len(candidates) |->
                      [idx |-> candidates[i], score |-> scoring.score[i]]]
        top_candidates == nlargest(scored, num_locations)
    IN  IF Len(candidates) = 0 THEN NoCandidates
        ELSE IF ~(ResultColumns \subseteq Columns) THEN KeyError
        ELSE [raised |-> FALSE,
              results |-> [i \in 1..Len(top_candidates) |->
                              ResultRow(top_candidates[i])]]

\* The last call: its arguments, whether it raised, the import's counters and
\* the length of the registry when it was made.
Op(op, name, lat, lon, raised, ok, bad) ==
    [op |-> op, name |-> name, lat |-> lat, lon |-> lon, raised |-> raised,
     success_count |-> ok, error_count |-> bad, len_before |-> Len(businesses)]

\* No read operation has returned since the last change of the registry.
NoQuery == [op |-> "none"]

Publish(r) ==
    /\ sa_data' = sa_data
    /\ businesses' = r.businesses
    /\ assigned_business' = r.assigned_business
    /\ distance_to_business' = r.distance_to_business

\* __init__, lines 26-28 and 49.
Init ==
    /\ sa_data = SaData
    /\ businesses = <<>>
    /\ assigned_business = [idx \in Rows |-> None]
    /\ distance_to_business = [idx \in Rows |-> Inf]
    /\ lastOp = Op("init", "", Fin(0), Fin(0), FALSE, 0, 0)
    /\ query = NoQuery

add_business(name, lat, lon) ==
    /\ Len(businesses) < MaxBusinesses
    /\ LET r == AddBusiness(businesses, name, lat, lon)
       IN  /\ Publish(r)
           /\ lastOp' = Op("add", name, lat, lon, r.raised, 0, 0)
           /\ query' = NoQuery

remove_business(name) ==
    LET r == RemoveBusiness(businesses, name)
    IN  /\ Publish(r)
        /\ lastOp' = Op("remove", name, Fin(0), Fin(0), r.raised, 0, 0)
        /\ query' = NoQuery

_recalculate_catchments ==
    LET r == RecalculateCatchments(businesses)
    IN  /\ Publish(r)
        /\ lastOp' = Op("recalculate", "", Fin(0), Fin(0), r.raised, 0, 0)
        /\ query' = NoQuery

\* app.py lines 691-713: the "Import Locations" button on a non-blank input.
ImportLocations(lines) ==
    /\ Len(businesses) + Len(lines) <= MaxBusinesses
    /\ LET st == ImportLines(lines, 1,
                     [businesses |-> businesses,
                      assigned_business |-> assigned_business,
                      distance_to_business |-> distance_to_business,
                      success_count |-> 0, error_count |-> 0])
       IN  /\ Publish(st)
           /\ lastOp' = Op("import", "", Fin(0), Fin(0), FALSE,
                           st.success_count, st.error_count)
           /\ query' = NoQuery

Next ==
    \/ \E name \in Names, c \in Coords : add_business(name, c[1], c[2])
    \/ \E name \in RemoveNames : remove_business(name)
    \/ \E lines \in BulkInputs : ImportLocations(lines)
    \/ _recalculate_catchments

Spec == Init /\ [][Next]_vars

\* ------------------------------------------------------------ read operations
\* business_name: None, or a name; "C" is in no registry.
SummaryNames == {None} \cup {Some(n) : n \in RemoveNames}
SummaryFilters == {NoFilters, MinMax(50, 60), MaxOnly(55), MinOnly(80)}
\* target_demographics: None, {'age_group': 'pop_25_54'}, or a column sa_data
\* does not have.
Targets == {None, Some("pop_25_54"), Some("pop_85_plus")}
\* min_distance_from_existing, squared like every distance: 0, sqrt(2), 2.
Radii == {Fin(0), Fin(2), Fin(4)}
\* The mutated frame of a read: the frame is scored in place (no .copy()), which
\* leaves a score column in sa_data.
ScoredInPlace ==
    /\ sa_data' = [idx \in Rows |->
                      [c \in (DOMAIN sa_data[idx]) \cup {"score"} |->
                          IF c = "score" THEN Fin(0) ELSE sa_data[idx][c]]]
    /\ UNCHANGED <<businesses, assigned_business, distance_to_business, lastOp>>

\* lines 116-118 and 161: the reads work on a selection or a copy of sa_data.
Unchanged ==
    UNCHANGED <<sa_data, businesses, assigned_business, distance_to_business, lastOp>>

get_catchment_summary(business_name, demographic_filters) ==
    LET selected == CatchmentData(business_name)
        catchment_data == ApplyFilters(selected, demographic_filters)
    IN  /\ query' = [op |-> "summary", business_name |-> business_name,
                     demographic_filters |-> demographic_filters,
                     selected |-> selected, catchment_data |-> catchment_data,
                     summary |-> Summary(catchment_data)]
        /\ Unchanged

find_optimal_location(num_locations, target_demographics, min_distance) ==
    LET candidates == Candidates(min_distance)
        r == FindOptimalLocation(num_locations, target_demographics, min_distance)
    IN  /\ query' = [op |-> "optimal", num_locations |-> num_locations,
                     target_demographics |-> target_demographics,
                     min_distance |-> min_distance,
                     candidates |-> candidates,
                     scoring |-> Scoring(candidates, target_demographics),
                     raised |-> r.raised, results |-> r.results]
        /\ Unchanged

\* The caller has the result (app.py line 754, lines 892-896); the next call
\* starts from there.
Returned ==
    /\ query.op # "none"
    /\ query' = NoQuery
    /\ Unchanged

\* The read operations on a registry of at most MaxQueryBusinesses businesses,
\* which imports fill and removals empty.
QueryNext ==
    \/ /\ query.op = "none"
       /\ \E lines \in BulkInputs : ImportLocations(lines)
       /\ Len(businesses') <= MaxQueryBusinesses
    \/ /\ query.op = "none"
       /\ \E name \in RemoveNames : remove_business(name)
    \/ /\ query.op = "none"
       /\ \E business_name \in SummaryNames, f \in SummaryFilters :
              get_catchment_summary(business_name, f)
    \/ /\ query.op = "none"
       /\ \E n \in 1..MaxLocations, t \in Targets, r \in Radii :
              find_optimal_location(n, t, r)
    \/ Returned

QuerySpec == Init /\ [][QueryNext]_vars

\* ------------------------------------------------- the bulk import, by line
\* app.py lines 683-689 and 693: the text area holds the pasted lines until the
\* button is pressed.
bulk_input(lines) ==
    /\ query.op = "none"
    /\ Len(businesses) + Len(lines) <= MaxBusinesses
    /\ query' = [op |-> "bulk_input", lines |-> lines]
    /\ Unchanged

\* app.py lines 691-713 on the lines in the text area.
ImportPasted ==
    /\ query.op = "bulk_input"
    /\ ImportLocations(query.lines)

ImportNext ==
    \/ \E lines \in BulkInputs : bulk_input(lines)
    \/ ImportPasted

ImportSpec == Init /\ [][ImportNext]_vars

\* ------------------------------------------- a frame without some column
\* The frame without the columns cols.
Without(cols) ==
    [idx \in 1..Len(SaData) |->
        [c \in (DOMAIN SaData[idx]) \ cols |-> SaData[idx][c]]]

\* The frames the tool is built on: the whole one, and the ones that lack one
\* of the columns find_optimal_location treats as optional.
Datasets ==
    {SaData} \cup {Without({c}) :
                      c \in {"population_density", "pop_25_54", "postcode", "suburb"}}

\* __init__ on one of the frames.
DatasetInit ==
    /\ sa_data \in Datasets
    /\ businesses = <<>>
    /\ assigned_business = [idx \in Rows |-> None]
    /\ distance_to_business = [idx \in Rows |-> Inf]
    /\ lastOp = Op("init", "", Fin(0), Fin(0), FALSE, 0, 0)
    /\ query = NoQuery

\* find_optimal_location on a registry of at most MaxQueryBusinesses
\* businesses, which imports fill.
DatasetNext ==
    \/ /\ query.op = "none"
       /\ \E lines \in BulkInputs : ImportLocations(lines)
       /\ Len(businesses') <= MaxQueryBusinesses
    \/ /\ query.op = "none"
       /\ \E n \in 1..MaxLocations, t \in Targets, r \in Radii :
              find_optimal_location(n, t, r)
    \/ Returned

DatasetSpec == DatasetInit /\ [][DatasetNext]_vars

\* ------------------------------------------------ an add and its removal
\* add_business of a name that the registry does not hold; the state before the
\* call is remembered.
add_new(name, lat, lon) ==
    /\ query.op = "none"
    /\ \A i \in 1..Len(businesses) : businesses[i].name # name
    /\ Len(businesses) < MaxBusinesses
    /\ LET r == AddBusiness(businesses, name, lat, lon)
       IN  /\ Publish(r)
           /\ lastOp' = Op("add", name, lat, lon, r.raised, 0, 0)
    /\ query' = [op |-> "added", businesses |-> businesses,
                 assigned_business |-> assigned_business,
                 distance_to_business |-> distance_to_business]

\* remove_business of that name, as the next call.
remove_added ==
    /\ query.op = "added"
    /\ LET r == RemoveBusiness(businesses, lastOp.name)
       IN  /\ Publish(r)
           /\ lastOp' = Op("remove", lastOp.name, Fin(0), Fin(0), r.raised, 0, 0)
    /\ query' = [query EXCEPT !.op = "removed"]

\* The two calls on a registry of at most MaxQueryBusinesses businesses, which
\* imports fill.
RoundTripNext ==
    \/ /\ query.op = "none"
       /\ \E lines \in BulkInputs : ImportLocations(lines)
       /\ Len(businesses') <= MaxQueryBusinesses
    \/ \E name \in Names, c \in Coords \cup {<<NaN, Fin(0)>>} :
           add_new(name, c[1], c[2])
    \/ remove_added
    \/ /\ query.op = "removed"
       /\ Returned

RoundTripSpec == Init /\ [][RoundTripNext]_vars

\* ================================================================== claims
RowCoords(idx) == <<sa_data[idx].latitude, sa_data[idx].longitude>>
DistTo(idx, b) == euclidean(RowCoords(idx), <<b.lat, b.lon>>)
Registry == 1..Len(businesses)
InRegistry(name) == \E i \in Registry : businesses[i].name = name
\* A business without its catchment list.
Ident(bs) == [i \in 1..Len(bs) |-> <<bs[i].name, bs[i].lat, bs[i].lon>>]
InRange(lat, lon) ==
    /\ LessEq(Fin(-90), lat) /\ LessEq(lat, Fin(90))
    /\ LessEq(Fin(-180), lon) /\ LessEq(lon, Fin(180))
SameTool ==
    /\ businesses' = businesses
    /\ assigned_business' = assigned_business
    /\ distance_to_business' = distance_to_business

\* C1: every area's assigned_business is None if and only if the registry is
\* empty.
C1_AssignedIffRegistryNonEmpty ==
    \A idx \in Rows : (assigned_business[idx] = None) <=> (businesses = <<>>)

\* C2: every area's recorded distance_to_business is <= its distance to every
\* business of the registry (to every business that has a distance at all).
C2_DistanceIsMinimum ==
    \A idx \in Rows : \A i \in Registry :
        \/ DistTo(idx, businesses[i]).raised
        \/ LessEq(distance_to_business[idx], DistTo(idx, businesses[i]).dist)

\* Business i is the earliest of two or more businesses at the least distance
\* from row idx.
EarliestOfTie(idx, i) ==
    LET d == DistTo(idx, businesses[i])
    IN  /\ ~d.raised
        /\ \A j \in Registry :
              LET e == DistTo(idx, businesses[j])
              IN  e.raised \/ LessEq(d.dist, e.dist)
        /\ \A j \in Registry :
              (j < i) => DistTo(idx, businesses[j]).dist # d.dist
        /\ \E j \in Registry :
              j # i /\ DistTo(idx, businesses[j]) = d

\* C3: an area with two or more businesses at the same least distance is
\* assigned to the earliest of them in registry order.
C3_TieGoesToEarliest ==
    \A idx \in Rows : \A i \in Registry :
        EarliestOfTie(idx, i) => assigned_business[idx] = Some(businesses[i].name)

\* C4: every non-null assigned_business is the name of a business of the
\* registry.
C4_AssignedInRegistry ==
    \A idx \in Rows :
        assigned_business[idx].some => InRegistry(assigned_business[idx].name)

\* C4 witness: a removal took a business out and areas are still assigned.
C4_Witness ==
    /\ lastOp.op = "remove"
    /\ Len(businesses) < lastOp.len_before
    /\ ~InRegistry(lastOp.name)
    /\ \A idx \in Rows : assigned_business[idx].some

\* C5: an area's distance_to_business is the distance to a business of the name
\* it is assigned to; it is +infinity with a None assignment if and only if the
\* registry is empty.
C5_DistanceOfAssigned ==
    \A idx \in Rows :
        IF businesses = <<>>
        THEN assigned_business[idx] = None /\ distance_to_business[idx] = Inf
        ELSE /\ assigned_business[idx].some
             /\ \E i \in Registry :
                   /\ businesses[i].name = assigned_business[idx].name
                   /\ DistTo(idx, businesses[i]) =
                          [raised |-> FALSE, dist |-> distance_to_business[idx]]

\* C6: add_business with a latitude outside [-90, 90] or a longitude outside
\* [-180, 180] is rejected and changes neither the registry, nor the two
\* columns, nor a catchment list.
C6_OutOfRangeRejected ==
    [][(lastOp'.op = "add" /\ ~InRange(lastOp'.lat, lastOp'.lon))
          => (lastOp'.raised /\ SameTool)]_vars

\* C7: after remove_business(name) no business of that name is left, the other
\* businesses keep their order, and no area is assigned to that name.
C7_RemoveDropsEveryMatch ==
    [][lastOp'.op = "remove"
          => /\ ~\E i \in 1..Len(businesses') : businesses'[i].name = lastOp'.name
             /\ Ident(businesses') =
                    SelectSeq(Ident(businesses), LAMBDA t : t[1] # lastOp'.name)
             /\ \A idx \in Rows : assigned_business'[idx] # Some(lastOp'.name)]_vars

\* C7 witness: one removal dropped two businesses of the same name and left
\* another one.
C7_Witness ==
    /\ lastOp.op = "remove"
    /\ lastOp.len_before >= Len(businesses) + 2
    /\ businesses # <<>>
    /\ ~InRegistry(lastOp.name)

\* C8: remove_business of a name that is not in the registry raises nothing
\* and leaves the registry, both columns and every catchment list as they were.
C8_RemoveAbsentIsNoOp ==
    [][(lastOp'.op = "remove" /\ ~InRegistry(lastOp'.name))
          => (~lastOp'.raised /\ SameTool)]_vars

\* C9: _recalculate_catchments run again with no change of the registry leaves
\* assignment, distance and catchment lists as they are.
C9_RecalculateIdempotent ==
    [][lastOp'.op = "recalculate" => SameTool]_vars

\* C9 witness: the recomputation has run over a registry with a filled
\* catchment list.
C9_Witness ==
    /\ lastOp.op = "recalculate"
    /\ ~lastOp.raised
    /\ Len(businesses) >= 2
    /\ \E i \in Registry : businesses[i].catchment # <<>>

\* C10: each business's catchment list is the list of the SA1 of the areas
\* assigned to its name, in the order of sa_data.
C10_CatchmentIsAssignedAreas ==
    \A i \in Registry :
        businesses[i].catchment =
            SelectSeq([idx \in Rows |-> sa_data[idx].SA1],
                      LAMBDA a : \E idx \in Rows :
                          /\ sa_data[idx].SA1 = a
                          /\ assigned_business[idx] = Some(businesses[i].name))

\* ------------------------------------------------ claims on the read operations
Elements(xs) == {xs[i] : i \in 1..Len(xs)}

\* C11: get_catchment_summary selects exactly the areas assigned to the named
\* business when the name of a business of the registry is given, and every
\* area when no name is given.
C11_SelectsCatchmentOfName ==
    (query.op = "summary") =>
        /\ (~query.business_name.some) => Elements(query.selected) = Rows
        /\ (query.business_name.some /\ InRegistry(query.business_name.name)) =>
               Elements(query.selected) =
                   {idx \in Rows : assigned_business[idx] = query.business_name}

\* The average income of the area lies within the bounds that f holds, bounds
\* included.
WithinBounds(idx, f) ==
    /\ f.has_min => sa_data[idx].avg_income.v >= f.min_income.v
    /\ f.has_max => sa_data[idx].avg_income.v <= f.max_income.v

RECURSIVE PopulationOf(_)
PopulationOf(S) ==
    IF S = {} THEN 0
    ELSE LET idx == CHOOSE x \in S : TRUE
         IN  sa_data[idx].total_population.v + PopulationOf(S \ {idx})

\* C12: the summary counts exactly the selected areas whose average income lies
\* within the inclusive bounds: num_areas is their number and total_population
\* the sum of their populations.
C12_InclusiveIncomeBounds ==
    (query.op = "summary") =>
        LET kept == {idx \in Elements(query.selected) :
                        WithinBounds(idx, query.demographic_filters)}
        IN  /\ Elements(query.catchment_data) = kept
            /\ query.summary.num_areas = Cardinality(kept)
            /\ query.summary.total_population = Fin(PopulationOf(kept))

\* Of the three areas, with bounds 50 and 60, s1 (55) and s3 (50, at the bound)
\* are counted and s2 (70) is not.
C12_Witness ==
    /\ query.op = "summary"
    /\ query.demographic_filters = MinMax(50, 60)
    /\ query.selected = AllRows
    /\ query.catchment_data = <<1, 3>>
    /\ query.summary.num_areas = 2
    /\ query.summary.total_population = Fin(400)

\* C13: over an empty subset the summary has num_areas 0 and every mean is NaN,
\* not zero.
C13_EmptySubsetMeansUndefined ==
    (query.op = "summary" /\ query.catchment_data = <<>>) =>
        /\ query.summary.num_areas = 0
        /\ query.summary.avg_income = FracNaN
        /\ query.summary.avg_age = FracNaN
        /\ query.summary.avg_distance = FracNaN

\* The income filter leaves no area of a business that has a catchment.
C13_Witness ==
    /\ query.op = "summary"
    /\ query.selected # <<>>
    /\ query.catchment_data = <<>>
    /\ query.summary.num_areas = 0
    /\ query.summary.avg_income.k = "nan"

\* C14: with a business in the registry and a radius above 0, an area is removed
\* from the candidates if and only if its distance to some business is strictly
\* below the radius.
C14_RemovedIffStrictlyCloser ==
    (/\ query.op = "optimal"
     /\ businesses # <<>>
     /\ Less(Fin(0), query.min_distance)) =>
        \A idx \in Rows :
            (idx \notin Elements(query.candidates)) <=>
                \E i \in Registry : Less(cdist(idx, businesses[i]), query.min_distance)

\* C15: for radii r1 < r2, the candidates kept for r2 are among the candidates
\* kept for r1.
C15_LargerRadiusKeepsFewer ==
    \A r1 \in Radii, r2 \in Radii :
        Less(r1, r2) => Elements(Candidates(r2)) \subseteq Elements(Candidates(r1))

\* The call with the largest radius kept fewer areas than the middle radius
\* keeps, and that keeps fewer than all.
C15_Witness ==
    /\ query.op = "optimal"
    /\ query.min_distance = Fin(4)
    /\ query.candidates = Candidates(Fin(4))
    /\ Len(query.candidates) < Len(Candidates(Fin(2)))
    /\ Len(Candidates(Fin(2))) < Len(Candidates(Fin(0)))

\* C16: when the filter leaves no candidate, find_optimal_location returns the
\* empty list and raises nothing.
C16_NoCandidatesEmptyResult ==
    (query.op = "optimal" /\ query.candidates = <<>>) =>
        /\ ~query.raised
        /\ query.results = <<>>

C16_Witness ==
    /\ query.op = "optimal"
    /\ businesses # <<>>
    /\ query.candidates = <<>>
    /\ \A i \in Registry : IsFinite(businesses[i].lat)
    /\ ~query.raised
    /\ query.results = <<>>

Signals == {"density", "target", "distance"}

\* The column of the candidates that a signal is normalised from.
SignalColumn(sig) ==
    Column(query.candidates,
           CASE sig = "density" -> "population_density"
             [] sig = "target" -> query.target_demographics.name
             [] sig = "distance" -> "distance_to_business")

InUnitInterval(q) == q.k = "fin" /\ 0 <= q.num /\ q.num <= q.den

\* C17: every normalised signal of every candidate lies in [0, 1], and a signal
\* whose maximum equals its minimum over the candidates is 0 for every
\* candidate.
C17_NormalizedInUnitInterval ==
    (query.op = "optimal") =>
        \A sig \in Signals : \A i \in 1..Len(query.scoring[sig]) :
            /\ InUnitInterval(query.scoring[sig][i])
            /\ (SeriesMax(SignalColumn(sig)) = SeriesMin(SignalColumn(sig))) =>
                   (query.scoring[sig][i].k = "fin" /\ query.scoring[sig][i].num = 0)

\* The signal of candidate i that enters its score; 0 for a signal left out.
Part(sig, active, i) == IF active THEN query.scoring[sig][i] ELSE Frac(0, 1)

\* C18: the score is 0.4 x normalised density, plus 0.4 x normalised target only
\* when the target column is asked for and exists, plus 0.2 x normalised
\* distance only when the registry is not empty; it is never above the sum of
\* the weights in use. (Scores in tenths.)
C18_ScoreIsWeightedSum ==
    (query.op = "optimal") =>
        LET t == /\ query.target_demographics.some
                 /\ query.target_demographics.name \in Columns
            b == businesses # <<>>
            W == 4 + (IF t THEN 4 ELSE 0) + (IF b THEN 2 ELSE 0)
        IN  /\ (query.candidates # <<>>) =>
                   /\ t <=> (query.scoring.target # <<>>)
                   /\ b <=> (query.scoring.distance # <<>>)
            /\ \A i \in 1..Len(query.candidates) :
                   LET x == Part("density", TRUE, i)
                       y == Part("target", t, i)
                       z == Part("distance", b, i)
                       score == query.scoring.score[i]
                   IN  IF x.k = "nan" \/ y.k = "nan" \/ z.k = "nan"
                       THEN score.k = "nan"
                       ELSE /\ score.k = "fin"
                            /\ score.num * (x.den * y.den * z.den) =
                                   score.den * (4 * x.num * y.den * z.den
                                                + 4 * y.num * x.den * z.den
                                                + 2 * z.num * x.den * y.den)
                            /\ score.num <= W * score.den

\* With a business and a target column that does not exist, the area that is
\* best on density and on distance scores 0.6, the sum of the two weights.
C18_Witness ==
    /\ query.op = "optimal"
    /\ businesses # <<>>
    /\ query.target_demographics = Some("pop_85_plus")
    /\ Len(query.candidates) > 1
    /\ \E i \in 1..Len(query.candidates) :
           /\ query.scoring.score[i].k = "fin"
           /\ query.scoring.score[i].num = 6 * query.scoring.score[i].den
    /\ \E i \in 1..Len(query.candidates) :
           /\ query.scoring.score[i].k = "fin"
           /\ 0 < query.scoring.score[i].num
           /\ query.scoring.score[i].num < 6 * query.scoring.score[i].den

\* The place among the candidates of the area that a result row is about.
Place(r) ==
    CHOOSE i \in 1..Len(query.candidates) : sa_data[query.candidates[i]].SA1 = r.SA1

SameScore(a, b) == a.k = "fin" /\ b.k = "fin" /\ a.num * b.den = b.num * a.den

\* C19: the results are the k candidates with the highest scores (all of them
\* when there are fewer than k), in descending order of score; candidates of
\* equal score are taken, and listed, in the order of the candidates.
C19_TopKDescendingStable ==
    (query.op = "optimal") =>
        LET results == query.results
            n == Len(query.candidates)
            score == query.scoring.score
            taken == {Place(results[j]) : j \in 1..Len(results)}
        IN  /\ Len(results) = IF query.num_locations < n THEN query.num_locations ELSE n
            /\ \A j \in 1..Len(results) :
                   /\ \E i \in 1..n : sa_data[query.candidates[i]].SA1 = results[j].SA1
                   /\ results[j].score = score[Place(results[j])]
            /\ \A j \in 1..Len(results) : \A l \in 1..Len(results) :
                   (j < l) =>
                       /\ Place(results[j]) # Place(results[l])
                       /\ ~ScoreGreater(results[l].score, results[j].score)
                       /\ SameScore(results[j].score, results[l].score) =>
                              Place(results[j]) < Place(results[l])
            /\ \A i \in (1..n) \ taken : \A j \in 1..Len(results) :
                   /\ ~ScoreGreater(score[i], results[j].score)
                   /\ SameScore(score[i], results[j].score) => Place(results[j]) < i

\* With no business and no target the scores are 0, 0.4 and 0.4: the two results
\* are s2 and s3 in this order, and the earlier area s1 is left out.
C19_Witness ==
    /\ query.op = "optimal"
    /\ query.num_locations = 2
    /\ Len(query.candidates) = 3
    /\ ScoreGreater(query.scoring.score[2], query.scoring.score[1])
    /\ SameScore(query.scoring.score[2], query.scoring.score[3])
    /\ Len(query.results) = 2
    /\ query.results[1].SA1 = "s2"
    /\ query.results[2].SA1 = "s3"

\* ------------------------------------------------- claims on the bulk import
\* A line of exactly three fields whose latitude and longitude float() parses.
WellFormed(parts) ==
    /\ Len(parts) = 3
    /\ float(parts[2]) # ValueError
    /\ float(parts[3]) # ValueError

\* What the well-formed lines add to the registry, in the order of the lines.
AddsOf(lines) ==
    LET valid == SelectSeq(lines, WellFormed)
    IN  [j \in 1..Len(valid) |->
            <<valid[j][1], float(valid[j][2]), float(valid[j][3])>>]

C21_MissingColumnDegrades ==
    (query.op = "optimal") =>
        /\ ~query.raised
        /\ (query.candidates # <<>>) => (query.results # <<>>)

\* ------------------------------------------------- claims on the registry
\* C22: every business of the registry has a non-empty name.
C22_NamesNonEmpty == \A i \in Registry : businesses[i].name # ""

\* C23: an add_business or remove_business call leaves the areas and all their
\* other attributes as they are, and writes assigned_business and
\* distance_to_business of every area anew: both columns are what a
\* recomputation from the new registry alone gives.
C23_OnlyTwoFieldsRewritten ==
    [][(lastOp'.op \in {"add", "remove"}) =>
          /\ sa_data' = sa_data
          /\ DOMAIN assigned_business' = Rows
          /\ DOMAIN distance_to_business' = Rows
          /\ assigned_business' = RecalculateCatchments(businesses').assigned_business
          /\ distance_to_business' =
                 RecalculateCatchments(businesses').distance_to_business]_vars

\* An add to a registry that had a business already has moved an area to the
\* new business and left another with the old one.
C23_Witness ==
    /\ lastOp.op = "add"
    /\ ~lastOp.raised
    /\ lastOp.len_before >= 1
    /\ sa_data = SaData
    /\ \E idx \in Rows : assigned_business[idx] = Some(lastOp.name)
    /\ \E idx \in Rows : assigned_business[idx] \notin {None, Some(lastOp.name)}

\* The columns and the catchment lists are those of the registry as it is: no
\* area is still reset while there is a business, every assignment names a
\* business of the registry at the recorded distance, and every catchment list
\* holds the areas assigned to its business.
Recomputed ==
    /\ \A idx \in Rows :
           IF businesses = <<>>
           THEN assigned_business[idx] = None /\ distance_to_business[idx] = Inf
           ELSE /\ assigned_business[idx].some
                /\ IsFinite(distance_to_business[idx])
                /\ \E i \in Registry :
                       /\ businesses[i].name = assigned_business[idx].name
                       /\ cdist(idx, businesses[i]) = distance_to_business[idx]
                /\ \A i \in Registry :
                       LessEq(distance_to_business[idx], cdist(idx, businesses[i]))
    /\ \A i \in Registry :
           Elements(businesses[i].catchment) =
               {sa_data[idx].SA1 : idx \in {x \in Rows :
                    assigned_business[x] = Some(businesses[i].name)}}

\* C24: a read never sees the registry changed while assignments, distances or
\* catchment lists are still reset, partly filled or those of the registry
\* before.
C24_ReadsSeeRecomputedState ==
    (query.op \in {"summary", "optimal"}) => Recomputed

\* ------------------------------------------- claims on the registry's steps
\* Area idx is with the business of the registry bs that is nearest to it, or
\* with none where bs is empty, by the columns ab and db.
AtNearest(idx, bs, ab, db) ==
    IF bs = <<>> THEN ab[idx] = None /\ db[idx] = Inf
    ELSE /\ \E i \in 1..Len(bs) :
                /\ ab[idx] = Some(bs[i].name)
                /\ db[idx] = cdist(idx, bs[i])
         /\ \A i \in 1..Len(bs) : LessEq(db[idx], cdist(idx, bs[i]))

Kept(idx) ==
    /\ assigned_business'[idx] = assigned_business[idx]
    /\ distance_to_business'[idx] = distance_to_business[idx]

\* C25: after add_business(G) every area keeps its assignment and distance or
\* is assigned to G; after remove_business(F) every area that was not assigned
\* to F keeps its assignment and distance and every area that was assigned to
\* F is with its nearest remaining business, or with none.
C25_OnlyNecessaryMoves ==
    [][/\ (lastOp'.op = "add") =>
              \A idx \in Rows :
                  Kept(idx) \/ assigned_business'[idx] = Some(lastOp'.name)
       /\ (lastOp'.op = "remove") =>
              \A idx \in Rows :
                  IF assigned_business[idx] = Some(lastOp'.name)
                  THEN AtNearest(idx, businesses', assigned_business',
                                 distance_to_business')
                  ELSE Kept(idx)]_vars

\* C26: with a non-empty registry every area's SA1 is in the catchment list of
\* exactly one entry of the registry.
C26_CatchmentsPartitionAreas ==
    (businesses # <<>>) =>
        \A idx \in Rows :
            Cardinality({i \in Registry :
                            sa_data[idx].SA1 \in Elements(businesses[i].catchment)}) = 1

\* C27: get_catchment_summary and find_optimal_location leave sa_data, the
\* registry with its catchment lists, and both columns as they are.
C27_ReadsChangeNothing ==
    [][(query'.op \in {"summary", "optimal"}) =>
          /\ sa_data' = sa_data
          /\ SameTool]_vars

\* find_optimal_location has returned rows on a registry of two businesses with
\* filled catchment lists.
C27_Witness ==
    /\ query.op = "optimal"
    /\ query.results # <<>>
    /\ sa_data = SaData
    /\ Len(businesses) = 2
    /\ \A i \in Registry : businesses[i].catchment # <<>>

\* C29: an add_business call (on its own or from the bulk import) increases no
\* area's distance_to_business, and a remove_business call decreases none.
C29_DistanceMonotone ==
    [][/\ (lastOp'.op \in {"add", "import"}) =>
              \A idx \in Rows :
                  LessEq(distance_to_business'[idx], distance_to_business[idx])
       /\ (lastOp'.op = "remove") =>
              \A idx \in Rows :
                  LessEq(distance_to_business[idx], distance_to_business'[idx])]_vars

\* C30: with a business in the registry and a radius above 0, the candidates of
\* find_optimal_location are the areas whose stored distance_to_business is
\* >= the radius.
C30_FilterAgreesWithStoredDistance ==
    (/\ query.op = "optimal"
     /\ businesses # <<>>
     /\ Less(Fin(0), query.min_distance)) =>
        Elements(query.candidates) =
            {idx \in Rows : LessEq(query.min_distance, distance_to_business[idx])}

\* C28: add_business of a name that is not in the registry, followed at once by
\* remove_business of that name, gives back the registry with its catchment
\* lists and both columns as they were before the add.
C28_AddThenRemoveRestores ==
    (query.op = "removed") =>
        /\ businesses = query.businesses
        /\ assigned_business = query.assigned_business
        /\ distance_to_business = query.distance_to_business

\* The pair of calls has run on a registry whose business has areas, and the
\* add had taken an area from it.
C28_Witness ==
    /\ query.op = "removed"
    /\ lastOp.op = "remove"
    /\ lastOp.len_before = Len(businesses) + 1
    /\ businesses # <<>>
    /\ businesses = query.businesses
    /\ \A i \in Registry : businesses[i].catchment # <<>>
    /\ \A idx \in Rows : assigned_business[idx] # Some(lastOp.name)

====
